---- MODULE Spec2Model ----
(***************************************************************************)
(* CC1101 radio driver: the bus transaction layer (src/src/lowlevel/mod.rs) *)
(* and the high-level API (src/src/lib.rs): set_radio_mode, receive,        *)
(* transmit and the configuration setters, run against a chip whose         *)
(* MARCSTATE, RXBYTES, LQI and FIFO bytes are free.                         *)
(*                                                                         *)
(* The driver is one sequential program: pc is its position inside the     *)
(* current high-level call.  Every bus-layer operation (one chip-select     *)
(* scoped transaction) is one step whose outcome is drawn from Outcomes:    *)
(* "ok", or the failure of cs.set_low, of the SPI transfer/write, or of     *)
(* cs.set_high.  The chip moves between the driver's steps (ChipStep).      *)
(***************************************************************************)
EXTENDS Integers, Sequences, FiniteSets, TLC

VARIABLES
    marcstate,  \* chip: the byte the MARCSTATE status register reports
    gdo2,       \* chip: level of the GDO2 status line, "low" or "high"
    iocfg0,     \* chip: content of the IOCFG0 configuration register
    cs,         \* chip-select line level, "low" or "high"
    fn,         \* the high-level operation called last ("none" before any)
    pc,         \* position of the driver inside the call; "idle" between calls
    radio_mode, \* set_radio_mode's argument
    srmRet,     \* where set_radio_mode returns to ("ret": to the API caller)
    len,        \* transmit's len argument
    payload,    \* transmit's payload argument
    tx_buffer,  \* transmit's local tx_buffer
    last,       \* rx_bytes_available's local
    readings,   \* RXBYTES bytes read by rx_bytes_available in this call
    length,     \* receive's local: the length byte of the FIFO burst read
    lqi,        \* receive's local: the LQI byte read
    pendingErr, \* receive: the error rx_bytes_available returned
    lastMarc,   \* the most recent MARCSTATE byte read in this call (-1: none)
    script,     \* a configuration setter's remaining bus operations
    result,     \* how the last call ended: "none" while running
    retval,     \* the value inside Ok
    bus,        \* the bus transactions attempted in this call, in order
    burstWire,  \* the bytes write_burst handed to spi.write (<<>>: none)
    lineReads,  \* reads of the GDO2 line in this call
    sawHigh,    \* transmit: the line was read high in the first wait
    sawLow,     \* transmit: the line was read low in the second wait
    cs0,        \* chip-select level when the call started
    iocfg0_0,   \* IOCFG0 when the call started
    bufLen,     \* receive: buf.len() of the caller's buffer
    addr,       \* receive's addr out-parameter
    fifoRx,     \* read_fifo: the bytes clocked back in its first transfer
    lineErr,    \* transmit: a read of the GDO2 line returned Err in this call
    mr_f,       \* modify_register's closure f
    mr_r,       \* modify_register's local r: the byte read (-1: none)
    otherWrote  \* another bus user wrote the register after it was read

chipVars == <<marcstate, gdo2, iocfg0>>
argVars  == <<fn, len, payload, cs0, iocfg0_0, bufLen, mr_f>>
srmVars  == <<radio_mode, srmRet>>
rxVars   == <<last, readings, length, lqi, pendingErr, addr, fifoRx>>
txVars   == <<tx_buffer, burstWire, lineReads, sawHigh, sawLow, lineErr>>
mrVars   == <<mr_r, otherWrote>>
vars == <<marcstate, gdo2, iocfg0, cs, fn, pc, radio_mode, srmRet, len, payload,
          tx_buffer, last, readings, length, lqi, pendingErr, lastMarc, script,
          result, retval, bus, burstWire, lineReads, sawHigh, sawLow, cs0, iocfg0_0,
          bufLen, addr, fifoRx, lineErr, mr_f, mr_r, otherWrote>>

(***************************************************************************)
(* Bounds and input sets                                                   *)
(***************************************************************************)
\* rx_bytes_available polls RXBYTES at most MaxPolls times in a modelled call.
MaxPolls == 3
\* The GDO2 read counter saturates here.
MaxLineReads == 2

\* Bytes the chip may report in MARCSTATE: SLEEP, IDLE, RX, TX, and IDLE with a
\* reserved upper bit set.
MarcBytes == {0, 1, 13, 19, 33}
\* Bytes the chip may report in RXBYTES: counts 0, 4, 5, and overflow with count 4.
RxBytesBytes == {0, 4, 5, 132}
\* LQI bytes: CRC bit clear / set.
LqiBytes == {5, 127, 128, 133}
\* Length bytes the FIFO burst read may return.
LengthBytes == {0, 4, 200}
\* The three bytes the chip clocks back during read_fifo's first transfer: the
\* chip status byte, then the first two bytes of the RX FIFO.
FifoHeaders == {<<15, l, 17>> : l \in LengthBytes}
\* buf.len() of the buffer handed to receive.
BufLens == {0, 8}
\* transmit's len arguments and payload lengths.
LenArgs == {0, 1, 10, 61, 62, 63, 255}
\* A payload holds exactly len bytes (as far as a slice the model keeps can), or
\* the 63 bytes that fill tx_buffer[1..].
PayloadLensFor(l) == {IF l <= 64 THEN l ELSE 64, 63}
\* Lengths of the byte sequences handed to write_burst directly.
BurstLens == {0, 1, 2, 63, 64}

Outcomes == {"ok", "gpio_low", "spi", "gpio_high"}
\* read_fifo makes two SPI transfers: "spi2" is the failure of the second.
FifoOutcomes == Outcomes \cup {"spi2"}
RadioModes == {"Receive", "Transmit", "Idle"}

(***************************************************************************)
(* Register fields and codes (lowlevel/registers, lowlevel/types)           *)
(***************************************************************************)
\* MachineState::value(): the MARCSTATE code of a machine state.
MachineStateValue(s) == CASE s = "IDLE" -> 1 [] s = "RX" -> 13 [] s = "TX" -> 19
\* MARCSTATE.marc_state(): bits 4..0.
marc_state(b) == b % 32
\* RXBYTES.rxfifo_overflow(): bit 7; RXBYTES.num_rxbytes(): bits 6..0.
rxfifo_overflow(b) == (b \div 128) % 2
num_rxbytes(b) == b % 128

(***************************************************************************)
(* The bus transaction layer                                                *)
(***************************************************************************)
\* A variant that releases chip-select before the SPI operations.
Transaction_ReleaseFirst(spi) == <<<<"set_low", 0>>, <<"set_high", 0>>>> \o spi
\* The primitives of one transaction, in program order: cs.set_low()?, the SPI
\* transfers or writes (each <<name, number of bytes>>), cs.set_high()?.
Transaction(spi) == <<<<"set_low", 0>>>> \o spi \o <<<<"set_high", 0>>>>

\* The primitives that took effect: every `?` returns at the first failure.
FailAt(prims, out) ==
    CASE out = "ok" -> Len(prims) + 1
      [] out = "gpio_low" -> 1
      [] out = "spi" -> 2
      [] out = "spi2" -> 3
      [] out = "gpio_high" -> Len(prims)
\* A variant in which a failed SPI operation is followed by cs.set_high().
Took_Release(prims, out) ==
    IF out \in {"spi", "spi2"}
    THEN SubSeq(prims, 1, FailAt(prims, out) - 1) \o <<<<"set_high", 0>>>>
    ELSE SubSeq(prims, 1, FailAt(prims, out) - 1)
Took(prims, out) == SubSeq(prims, 1, FailAt(prims, out) - 1)

\* Chip-select level after the primitives `did`, starting from level c.
LevelAfter(c, did) ==
    LET drives == {i \in 1..Len(did) : did[i][1] \in {"set_low", "set_high"}}
    IN  IF drives = {} THEN c
        ELSE LET k == CHOOSE i \in drives : \A j \in drives : j <= i
             IN  IF did[k][1] = "set_low" THEN "low" ELSE "high"

\* One attempted transaction: what it was, how it ended, the chip-select level
\* it started from and the primitives that took effect.
Ev(op, arg, val, out, prims) ==
    [op |-> op, arg |-> arg, val |-> val, out |-> out,
     pre |-> cs, did |-> Took(prims, out)]

\* The call's record of bus transactions.  A run of successful reads of the
\* same register (a polling loop) is kept as one entry holding the last byte
\* read, so a loop of any length leaves a finite record.
Log(b, e) ==
    IF /\ e.op = "read" /\ e.out = "ok" /\ Len(b) > 0
       /\ b[Len(b)].op = "read" /\ b[Len(b)].arg = e.arg /\ b[Len(b)].out = "ok"
    THEN [b EXCEPT ![Len(b)] = e]
    ELSE Append(b, e)

\* Error::Spi / Error::Gpio of a failed transaction.
ErrOf(out) == IF out \in {"spi", "spi2"} THEN "Spi" ELSE "Gpio"

\* Chip-select after a transaction.
CsAfter(prims, out) == LevelAfter(cs, Took(prims, out))

\* buffer = [raddr, 0]; spi.transfer(&mut buffer).
ReadRegisterPrims == Transaction(<<<<"transfer", 2>>>>)
read_register(reg, byte, out) ==
    /\ bus' = Log(bus, Ev("read", reg, IF out = "ok" THEN byte ELSE 0, out, ReadRegisterPrims))
    /\ cs' = CsAfter(ReadRegisterPrims, out)

\* spi.write(&[com.addr()]).
WriteStrobePrims == Transaction(<<<<"write", 1>>>>)
write_strobe(com, out) ==
    /\ bus' = Log(bus, Ev("strobe", com, 0, out, WriteStrobePrims))
    /\ cs' = CsAfter(WriteStrobePrims, out)

\* spi.write(&mut [waddr, byte]).
WriteRegisterPrims == Transaction(<<<<"write", 2>>>>)
write_register(reg, byte, out) ==
    /\ bus' = Log(bus, Ev("write", reg, byte, out, WriteRegisterPrims))
    /\ cs' = CsAfter(WriteRegisterPrims, out)
    /\ iocfg0' = IF reg = "IOCFG0" /\ out \in {"ok", "gpio_high"} THEN byte ELSE iocfg0

\* buffer = [FIFO | 0xC0, 0, 0]; spi.transfer(&mut buffer); spi.transfer(buf).
FifoHeaderLen == 3
ReadFifoPrims(n) == Transaction(<<<<"transfer", FifoHeaderLen>>, <<"transfer", n>>>>)
read_fifo(n, out) ==
    /\ bus' = Log(bus, Ev("read_fifo", "FIFO", 0, out, ReadFifoPrims(n)))
    /\ cs' = CsAfter(ReadFifoPrims(n), out)

\* payload_u8: [u8; 64], the local buffer of write_burst.
BurstBufLen == 64
\* Command::FIFO's write address with Command::BURSTFLG set.
FifoBurstWriteAddr == 127
Zeros(n) == [i \in 1..n |-> 0]
\* payload_u8[1..bytes.len() + 1] panics when the range ends past the buffer.
WriteBurstPanics(bytes) == Len(bytes) + 1 > BurstBufLen
\* The slice handed to spi.write: &payload_u8[..bytes.len()].
WriteBurstWire(bytes) ==
    LET payload_u8 == <<FifoBurstWriteAddr>> \o bytes \o Zeros(BurstBufLen - 1 - Len(bytes))
    IN  SubSeq(payload_u8, 1, Len(bytes))
\* write_burst that does not panic: one transaction.
WriteBurstPrims(bytes) == Transaction(<<<<"write", Len(WriteBurstWire(bytes))>>>>)
write_burst(bytes, out) ==
    /\ bus' = Log(bus, Ev("write_burst", "FIFO", Len(bytes), out, WriteBurstPrims(bytes)))
    /\ cs' = CsAfter(WriteBurstPrims(bytes), out)
    /\ burstWire' = IF out \in {"ok", "gpio_high"} THEN WriteBurstWire(bytes) ELSE burstWire

(***************************************************************************)
(* How a call ends                                                         *)
(***************************************************************************)
Return(res, val) == pc' = "idle" /\ result' = res /\ retval' = val
\* A Rust panic (slice bounds, copy_from_slice length): the program aborts.
Panic == pc' = "abort" /\ result' = "panic" /\ retval' = 0

(***************************************************************************)
(* await_machine_state: one iteration of the loop                          *)
(***************************************************************************)
\* A variant of await_machine_state that compares the whole MARCSTATE byte.
await_machine_state_unmasked(target, out, done) ==
    /\ read_register("MARCSTATE", marcstate, out)
    /\ IF out # "ok"
       THEN /\ Return(ErrOf(out), 0)
            /\ UNCHANGED lastMarc
       ELSE /\ lastMarc' = marcstate
            /\ IF MachineStateValue(target) = marcstate
               THEN done
               ELSE UNCHANGED <<pc, result, retval>>

\* `done` is what follows the loop's break.
await_machine_state(target, out, done) ==
    /\ read_register("MARCSTATE", marcstate, out)
    /\ IF out # "ok"
       THEN /\ Return(ErrOf(out), 0)
            /\ UNCHANGED lastMarc
       ELSE /\ lastMarc' = marcstate
            /\ IF MachineStateValue(target) = marc_state(marcstate)
               THEN done
               ELSE UNCHANGED <<pc, result, retval>>

(***************************************************************************)
(* set_radio_mode                                                          *)
(***************************************************************************)
\* set_radio_mode returns Ok(()) to where it was called from.
SrmReturn ==
    IF srmRet = "ret" THEN Return("Ok", 0)
    ELSE pc' = srmRet /\ UNCHANGED <<result, retval>>

TargetStrobe(m) == IF m = "Receive" THEN "SRX" ELSE "STX"
TargetState(m) == IF m = "Receive" THEN "RX" ELSE "TX"

\* RadioMode::Idle arm, also reached through the recursive call of the other arms.
SrmStrobeIdle ==
    /\ pc = "srm_sidle"
    /\ \E out \in Outcomes :
        /\ write_strobe("SIDLE", out)
        /\ IF out = "ok"
           THEN pc' = "srm_await_idle" /\ UNCHANGED <<result, retval>>
           ELSE Return(ErrOf(out), 0)
    /\ UNCHANGED <<chipVars, argVars, mrVars, srmVars, rxVars, txVars, lastMarc, script>>

\* A variant of the RX/TX arms that does not wait for IDLE before the target strobe.
SrmAwaitIdle_Skip ==
    /\ pc = "srm_await_idle"
    /\ IF radio_mode = "Idle"
       THEN \E out \in Outcomes : await_machine_state("IDLE", out, SrmReturn)
       ELSE /\ pc' = "srm_target"
            /\ UNCHANGED <<result, retval, bus, cs, lastMarc>>
    /\ UNCHANGED <<chipVars, argVars, mrVars, srmVars, rxVars, txVars, script>>

SrmAwaitIdle ==
    /\ pc = "srm_await_idle"
    /\ \E out \in Outcomes :
        await_machine_state("IDLE", out,
            IF radio_mode = "Idle" THEN SrmReturn
            ELSE pc' = "srm_target" /\ UNCHANGED <<result, retval>>)
    /\ UNCHANGED <<chipVars, argVars, mrVars, srmVars, rxVars, txVars, script>>

SrmStrobeTarget ==
    /\ pc = "srm_target"
    /\ \E out \in Outcomes :
        /\ write_strobe(TargetStrobe(radio_mode), out)
        /\ IF out = "ok"
           THEN pc' = "srm_await_target" /\ UNCHANGED <<result, retval>>
           ELSE Return(ErrOf(out), 0)
    /\ UNCHANGED <<chipVars, argVars, mrVars, srmVars, rxVars, txVars, lastMarc, script>>

SrmAwaitTarget ==
    /\ pc = "srm_await_target"
    /\ \E out \in Outcomes :
        await_machine_state(TargetState(radio_mode), out, SrmReturn)
    /\ UNCHANGED <<chipVars, argVars, mrVars, srmVars, rxVars, txVars, script>>

set_radio_mode == SrmStrobeIdle \/ SrmAwaitIdle \/ SrmStrobeTarget \/ SrmAwaitTarget

(***************************************************************************)
(* rx_bytes_available and receive                                          *)
(***************************************************************************)
\* A variant of the loop that ends on the first non-zero count.
rx_bytes_available_NoDebounce(byte, out) ==
    /\ read_register("RXBYTES", byte, out)
    /\ IF out # "ok"
       THEN /\ pendingErr' = ErrOf(out)
            /\ pc' = "rx_flush_err"
            /\ UNCHANGED <<last, readings>>
       ELSE /\ readings' = Append(readings, byte)
            /\ IF rxfifo_overflow(byte) = 1
               THEN /\ pendingErr' = "RxOverflow"
                    /\ pc' = "rx_flush_err"
                    /\ UNCHANGED last
               ELSE IF num_rxbytes(byte) > 0
                    THEN /\ pc' = "rx_fifo"
                         /\ last' = num_rxbytes(byte)
                         /\ UNCHANGED pendingErr
                    ELSE /\ last' = num_rxbytes(byte)
                         /\ UNCHANGED <<pc, pendingErr>>

\* One iteration of rx_bytes_available's loop; its Result is matched by receive.
rx_bytes_available(byte, out) ==
    /\ read_register("RXBYTES", byte, out)
    /\ IF out # "ok"
       THEN /\ pendingErr' = ErrOf(out)
            /\ pc' = "rx_flush_err"
            /\ UNCHANGED <<last, readings>>
       ELSE /\ readings' = Append(readings, byte)
            /\ IF rxfifo_overflow(byte) = 1
               THEN /\ pendingErr' = "RxOverflow"
                    /\ pc' = "rx_flush_err"
                    /\ UNCHANGED last
               ELSE IF num_rxbytes(byte) > 0 /\ num_rxbytes(byte) = last
                    THEN /\ pc' = "rx_fifo"
                         /\ UNCHANGED <<last, pendingErr>>
                    ELSE /\ last' = num_rxbytes(byte)
                         /\ UNCHANGED <<pc, pendingErr>>

RxPoll ==
    /\ pc = "rx_poll"
    /\ Len(readings) < MaxPolls
    /\ \E byte \in RxBytesBytes, out \in Outcomes : rx_bytes_available(byte, out)
    /\ UNCHANGED <<chipVars, argVars, mrVars, srmVars, txVars, length, lqi, addr, fifoRx,
                   lastMarc, script, result, retval>>

\* A variant that hands back the two header bytes the other way round.
RxReadFifo_Swapped ==
    /\ pc = "rx_fifo"
    /\ \E out \in FifoOutcomes, miso \in FifoHeaders :
        /\ read_fifo(bufLen, out)
        /\ IF out = "ok"
           THEN /\ fifoRx' = miso
                /\ length' = miso[3]
                /\ addr' = miso[2]
                /\ pc' = "rx_lqi"
                /\ UNCHANGED <<result, retval>>
           ELSE Return(ErrOf(out), 0) /\ UNCHANGED <<length, addr, fifoRx>>
    /\ UNCHANGED <<chipVars, argVars, mrVars, srmVars, txVars, last, readings, lqi,
                   pendingErr, lastMarc, script>>

\* read_fifo(addr, &mut length, buf)?: the header bytes come back as the chip
\* clocks them.
RxReadFifo ==
    /\ pc = "rx_fifo"
    /\ \E out \in FifoOutcomes, miso \in FifoHeaders :
        /\ read_fifo(bufLen, out)
        /\ IF out = "ok"
           THEN /\ fifoRx' = miso
                /\ length' = miso[2]
                /\ addr' = miso[3]
                /\ pc' = "rx_lqi"
                /\ UNCHANGED <<result, retval>>
           ELSE Return(ErrOf(out), 0) /\ UNCHANGED <<length, addr, fifoRx>>
    /\ UNCHANGED <<chipVars, argVars, mrVars, srmVars, txVars, last, readings, lqi,
                   pendingErr, lastMarc, script>>

RxReadLqi ==
    /\ pc = "rx_lqi"
    /\ \E out \in Outcomes, byte \in LqiBytes :
        /\ read_register("LQI", byte, out)
        /\ IF out = "ok"
           THEN lqi' = byte /\ pc' = "rx_await_idle" /\ UNCHANGED <<result, retval>>
           ELSE Return(ErrOf(out), 0) /\ UNCHANGED lqi
    /\ UNCHANGED <<chipVars, argVars, mrVars, srmVars, txVars, last, readings, length,
                   addr, fifoRx, pendingErr, lastMarc, script>>

\* A variant that reads MARCSTATE once and goes on whatever it reports.
RxAwaitIdle_Once ==
    /\ pc = "rx_await_idle"
    /\ \E out \in Outcomes :
        /\ read_register("MARCSTATE", marcstate, out)
        /\ IF out # "ok"
           THEN Return(ErrOf(out), 0) /\ UNCHANGED lastMarc
           ELSE lastMarc' = marcstate /\ pc' = "rx_flush" /\ UNCHANGED <<result, retval>>
    /\ UNCHANGED <<chipVars, argVars, mrVars, srmVars, rxVars, txVars, script>>

\* self.await_machine_state(MachineState::IDLE)?
RxAwaitIdle ==
    /\ pc = "rx_await_idle"
    /\ \E out \in Outcomes :
        await_machine_state("IDLE", out, pc' = "rx_flush" /\ UNCHANGED <<result, retval>>)
    /\ UNCHANGED <<chipVars, argVars, mrVars, srmVars, rxVars, txVars, script>>

\* A variant of the Ok arm that returns the polled byte count, not the length byte.
RxFlush_ReturnsCount ==
    /\ pc = "rx_flush"
    /\ \E out \in Outcomes :
        /\ write_strobe("SFRX", out)
        /\ IF out # "ok" THEN Return(ErrOf(out), 0)
           ELSE IF (lqi \div 128) # 1 THEN Return("CrcMismatch", 0)
           ELSE Return("Ok", last)
    /\ UNCHANGED <<chipVars, argVars, mrVars, srmVars, rxVars, txVars, lastMarc, script>>

\* A variant of the Ok arm with the CRC test inverted.
RxFlush_CrcInverted ==
    /\ pc = "rx_flush"
    /\ \E out \in Outcomes :
        /\ write_strobe("SFRX", out)
        /\ IF out # "ok" THEN Return(ErrOf(out), 0)
           ELSE IF (lqi \div 128) # 0 THEN Return("CrcMismatch", 0)
           ELSE Return("Ok", length)
    /\ UNCHANGED <<chipVars, argVars, mrVars, srmVars, rxVars, txVars, lastMarc, script>>

\* The Ok arm's flush and the classification of the LQI byte.
RxFlush ==
    /\ pc = "rx_flush"
    /\ \E out \in Outcomes :
        /\ write_strobe("SFRX", out)
        /\ IF out # "ok" THEN Return(ErrOf(out), 0)
           ELSE IF (lqi \div 128) # 1 THEN Return("CrcMismatch", 0)
           ELSE Return("Ok", length)
    /\ UNCHANGED <<chipVars, argVars, mrVars, srmVars, rxVars, txVars, lastMarc, script>>

\* A variant of the Err(err) arm that returns without flushing.
RxFlushErr_NoFlush ==
    /\ pc = "rx_flush_err"
    /\ Return(pendingErr, 0)
    /\ UNCHANGED <<chipVars, cs, bus, argVars, mrVars, srmVars, rxVars, txVars, lastMarc, script>>

\* The Err(err) arm: it takes every error of rx_bytes_available.
RxFlushErr ==
    /\ pc = "rx_flush_err"
    /\ \E out \in Outcomes :
        /\ write_strobe("SFRX", out)
        /\ IF out # "ok" THEN Return(ErrOf(out), 0)
           ELSE Return(pendingErr, 0)
    /\ UNCHANGED <<chipVars, argVars, mrVars, srmVars, rxVars, txVars, lastMarc, script>>

receive == RxPoll \/ RxReadFifo \/ RxReadLqi \/ RxAwaitIdle \/ RxFlush \/ RxFlushErr

(***************************************************************************)
(* transmit                                                                *)
(***************************************************************************)
\* tx_buffer: [u8; 64].
TxBufLen == 64
\* The accepted lengths: len > 0 && len < 62.
TxLimit == 62
\* A variant of the length test that admits 62.
ValidLen_Inclusive(l) == l > 0 /\ l <= TxLimit
ValidLen(l) == l > 0 /\ l < TxLimit

\* The length test; the else arm does nothing and the call returns Ok(()).
TxCheck ==
    /\ pc = "tx_check"
    /\ IF ValidLen(len)
       THEN pc' = "tx_iocfg_sync" /\ UNCHANGED <<result, retval>>
       ELSE Return("Ok", 0)
    /\ UNCHANGED <<chipVars, cs, argVars, mrVars, srmVars, rxVars, txVars, lastMarc, script, bus>>

TxIocfgSync ==
    /\ pc = "tx_iocfg_sync"
    /\ \E out \in Outcomes :
        /\ write_register("IOCFG0", 9, out)
        /\ IF out = "ok"
           THEN pc' = "tx_fill" /\ UNCHANGED <<result, retval>>
           ELSE Return(ErrOf(out), 0)
    /\ UNCHANGED <<marcstate, gdo2, argVars, mrVars, srmVars, rxVars, txVars, lastMarc, script>>

\* tx_buffer[0] = len; tx_buffer[1..].copy_from_slice(payload): copy_from_slice
\* panics unless the two slices have the same length.  Then set_radio_mode(Idle).
TxFill ==
    /\ pc = "tx_fill"
    /\ IF Len(payload) # TxBufLen - 1
       THEN /\ Panic
            /\ UNCHANGED <<tx_buffer, srmVars>>
       ELSE /\ tx_buffer' = <<len>> \o payload
            /\ pc' = "srm_sidle"
            /\ radio_mode' = "Idle"
            /\ srmRet' = "tx_sftx"
            /\ UNCHANGED <<result, retval>>
    /\ UNCHANGED <<chipVars, cs, argVars, mrVars, rxVars, burstWire, lineReads, sawHigh, sawLow,
                   lineErr, lastMarc, script, bus>>

\* write_strobe(SFTX), then set_radio_mode(Receive).
TxFlushTx ==
    /\ pc = "tx_sftx"
    /\ \E out \in Outcomes :
        /\ write_strobe("SFTX", out)
        /\ IF out = "ok"
           THEN /\ pc' = "srm_sidle"
                /\ radio_mode' = "Receive"
                /\ srmRet' = "tx_burst"
                /\ UNCHANGED <<result, retval>>
           ELSE Return(ErrOf(out), 0) /\ UNCHANGED srmVars
    /\ UNCHANGED <<chipVars, argVars, mrVars, rxVars, txVars, lastMarc, script>>

\* write_burst(Command::FIFO, &mut tx_buffer).
TxBurst ==
    /\ pc = "tx_burst"
    /\ IF WriteBurstPanics(tx_buffer)
       THEN Panic /\ UNCHANGED <<bus, cs, burstWire>>
       ELSE \E out \in Outcomes :
               /\ write_burst(tx_buffer, out)
               /\ IF out = "ok"
                  THEN pc' = "tx_iocfg_pkt" /\ UNCHANGED <<result, retval>>
                  ELSE Return(ErrOf(out), 0)
    /\ UNCHANGED <<chipVars, argVars, mrVars, srmVars, rxVars, tx_buffer, lineReads, sawHigh,
                   sawLow, lineErr, lastMarc, script>>

\* write_register(IOCFG0, 0x06), then set_radio_mode(Transmit).
TxIocfgPkt ==
    /\ pc = "tx_iocfg_pkt"
    /\ \E out \in Outcomes :
        /\ write_register("IOCFG0", 6, out)
        /\ IF out = "ok"
           THEN /\ pc' = "srm_sidle"
                /\ radio_mode' = "Transmit"
                /\ srmRet' = "tx_wait_sync"
                /\ UNCHANGED <<result, retval>>
           ELSE Return(ErrOf(out), 0) /\ UNCHANGED srmVars
    /\ UNCHANGED <<marcstate, gdo2, argVars, mrVars, rxVars, txVars, lastMarc, script>>

\* gdo2.is_low(): Ok(level is low) or Err.
LineResults == {"Ok", "Err"}
CountRead(n) == IF n < MaxLineReads THEN n + 1 ELSE n

\* while waiting_for_sync: an Err reading is dropped and the loop goes on.
TxWaitSync ==
    /\ pc = "tx_wait_sync"
    /\ \E r \in LineResults :
        /\ lineReads' = CountRead(lineReads)
        /\ lineErr' = (lineErr \/ r = "Err")
        /\ IF r = "Ok" /\ gdo2 = "high"
           THEN pc' = "tx_wait_done" /\ sawHigh' = TRUE
           ELSE UNCHANGED <<pc, sawHigh>>
    /\ UNCHANGED <<chipVars, cs, argVars, mrVars, srmVars, rxVars, tx_buffer, burstWire, sawLow,
                   lastMarc, script, result, retval, bus>>

\* while waiting_for_transmit, then set_radio_mode(Idle).
TxWaitDone ==
    /\ pc = "tx_wait_done"
    /\ \E r \in LineResults :
        /\ lineReads' = CountRead(lineReads)
        /\ lineErr' = (lineErr \/ r = "Err")
        /\ IF r = "Ok" /\ gdo2 = "low"
           THEN /\ pc' = "srm_sidle"
                /\ radio_mode' = "Idle"
                /\ srmRet' = "ret"
                /\ sawLow' = TRUE
           ELSE UNCHANGED <<pc, srmVars, sawLow>>
    /\ UNCHANGED <<chipVars, cs, argVars, mrVars, rxVars, tx_buffer, burstWire, sawHigh,
                   lastMarc, script, result, retval, bus>>

\* The part of transmit up to the burst write, and the part after it.
transmit == TxCheck \/ TxIocfgSync \/ TxFill \/ TxFlushTx \/ TxBurst
transmitTail == TxIocfgPkt \/ TxWaitSync \/ TxWaitDone

(***************************************************************************)
(* The configuration setters                                               *)
(***************************************************************************)
W(reg) == <<"write", reg>>
R(reg) == <<"read", reg>>
\* lowlevel modify_register: read_register(reg)?, then write_register(reg, f(r))?.
modify_register(reg) == <<R(reg), W(reg)>>

\* The bus operations of each setter, in program order, each followed by `?`.
\* The bytes written come from the field codecs and are not modelled.
Setters == {"set_frequency", "set_deviation", "set_data_rate", "set_chanbw",
            "set_sync_mode", "set_modulation", "set_address_filter",
            "set_packet_length", "set_defaults"}
SetterScript(f) ==
    CASE f = "set_frequency" -> <<W("FREQ0"), W("FREQ1"), W("FREQ2")>>
      [] f = "set_deviation" -> <<W("DEVIATN")>>
      [] f = "set_data_rate" -> modify_register("MDMCFG4") \o <<W("MDMCFG3")>>
      [] f = "set_chanbw" -> modify_register("MDMCFG4")
      [] f = "set_sync_mode" -> modify_register("MDMCFG2") \o <<W("SYNC1"), W("SYNC0")>>
      [] f = "set_modulation" -> modify_register("MDMCFG2")
      [] f = "set_address_filter" -> modify_register("PKTCTRL1") \o <<W("ADDR")>>
      [] f = "set_packet_length" -> modify_register("PKTCTRL0") \o <<W("PKTLEN")>>
      [] f = "set_defaults" -> <<<<"strobe", "SRES">>, W("PKTCTRL0"), W("FSCTRL1"),
                                 W("MDMCFG2"), W("MCSM0"), W("AGCCTRL2")>>

\* One bus operation of a setter and its `?`; Ok(()) after the last.
SetterStep ==
    /\ pc = "setter"
    /\ \E out \in Outcomes :
        LET e == Head(script) IN
        /\ CASE e[1] = "write" -> write_register(e[2], 0, out)
             [] e[1] = "read" -> read_register(e[2], 0, out) /\ UNCHANGED iocfg0
             [] e[1] = "strobe" -> write_strobe(e[2], out) /\ UNCHANGED iocfg0
        /\ IF out # "ok" THEN Return(ErrOf(out), 0) /\ UNCHANGED script
           ELSE /\ script' = Tail(script)
                /\ IF Len(script) = 1 THEN Return("Ok", 0)
                   ELSE UNCHANGED <<pc, result, retval>>
    /\ UNCHANGED <<marcstate, gdo2, argVars, mrVars, srmVars, rxVars, txVars, lastMarc>>

\* A direct call of the public lowlevel write_burst(Command::FIFO, bytes).
LlBurst ==
    /\ pc = "ll_burst"
    /\ IF WriteBurstPanics(payload)
       THEN Panic /\ UNCHANGED <<bus, cs, burstWire>>
       ELSE \E out \in Outcomes :
               /\ write_burst(payload, out)
               /\ Return(IF out = "ok" THEN "Ok" ELSE ErrOf(out), 0)
    /\ UNCHANGED <<chipVars, argVars, mrVars, srmVars, rxVars, tx_buffer, lineReads, sawHigh,
                   sawLow, lineErr, lastMarc, script>>

(***************************************************************************)
(* The caller and the chip                                                 *)
(***************************************************************************)
\* Payload bytes: position i holds i + 100.
Pay(n) == [i \in 1..n |-> i + 100]

\* The application calls one operation of the API; a call runs to its end
\* before the next starts (&mut self).
Call ==
    /\ pc = "idle"
    /\ last' = 0 /\ readings' = <<>> /\ length' = 0 /\ lqi' = 0
    /\ pendingErr' = "none" /\ lastMarc' = -1
    /\ result' = "none" /\ retval' = 0 /\ bus' = <<>>
    /\ tx_buffer' = <<>> /\ burstWire' = <<>>
    /\ lineReads' = 0 /\ sawHigh' = FALSE /\ sawLow' = FALSE
    /\ cs0' = cs /\ iocfg0_0' = iocfg0
    /\ addr' = 0 /\ fifoRx' = <<>> /\ lineErr' = FALSE
    /\ mr_f' = "none" /\ mr_r' = -1 /\ otherWrote' = FALSE
    /\ srmRet' = "ret"
    /\ \/ \E m \in RadioModes :
            /\ fn' = "set_radio_mode" /\ pc' = "srm_sidle" /\ radio_mode' = m
            /\ len' = 0 /\ payload' = <<>> /\ script' = <<>> /\ bufLen' = 0
       \/ \E n \in BufLens :
          /\ fn' = "receive" /\ pc' = "rx_poll" /\ radio_mode' = "Idle"
          /\ len' = 0 /\ payload' = <<>> /\ script' = <<>> /\ bufLen' = n
       \/ \E l \in LenArgs : \E n \in PayloadLensFor(l) :
            /\ fn' = "transmit" /\ pc' = "tx_check" /\ radio_mode' = "Idle"
            /\ len' = l /\ payload' = Pay(n) /\ script' = <<>> /\ bufLen' = 0
       \/ \E f \in Setters :
            /\ fn' = f /\ pc' = "setter" /\ radio_mode' = "Idle"
            /\ len' = 0 /\ payload' = <<>> /\ script' = SetterScript(f) /\ bufLen' = 0
       \/ \E n \in BurstLens :
            /\ fn' = "write_burst" /\ pc' = "ll_burst" /\ radio_mode' = "Idle"
            /\ len' = 0 /\ payload' = Pay(n) /\ script' = <<>> /\ bufLen' = 0
    /\ UNCHANGED <<chipVars, cs>>

\* The chip's state machine moves on its own: MARCSTATE reports another byte.
ChipStep ==
    /\ \E b \in MarcBytes \ {marcstate} : marcstate' = b
    /\ UNCHANGED <<gdo2, iocfg0, cs, pc, argVars, mrVars, srmVars, rxVars, txVars,
                   lastMarc, script, result, retval, bus>>

\* The chip drives the GDO2 line.
LineStep ==
    /\ gdo2' = IF gdo2 = "low" THEN "high" ELSE "low"
    /\ UNCHANGED <<marcstate, iocfg0, cs, pc, argVars, mrVars, srmVars, rxVars, txVars,
                   lastMarc, script, result, retval, bus>>

\* After Cc1101::new: no call made; new() drives no line and writes no register.
Init ==
    /\ marcstate \in MarcBytes
    /\ gdo2 = "low"
    /\ iocfg0 = 63
    /\ cs \in {"low", "high"}
    /\ fn = "none" /\ pc = "idle"
    /\ radio_mode = "Idle" /\ srmRet = "ret"
    /\ len = 0 /\ payload = <<>> /\ tx_buffer = <<>>
    /\ last = 0 /\ readings = <<>> /\ length = 0 /\ lqi = 0
    /\ pendingErr = "none" /\ lastMarc = -1 /\ script = <<>>
    /\ result = "none" /\ retval = 0 /\ bus = <<>> /\ burstWire = <<>>
    /\ lineReads = 0 /\ sawHigh = FALSE /\ sawLow = FALSE
    /\ cs0 = cs /\ iocfg0_0 = iocfg0
    /\ bufLen = 0 /\ addr = 0 /\ fifoRx = <<>> /\ lineErr = FALSE
    /\ mr_f = "none" /\ mr_r = -1 /\ otherWrote = FALSE

Next ==
    \/ Call
    \/ ChipStep
    \/ SrmStrobeIdle \/ SrmAwaitIdle \/ SrmStrobeTarget \/ SrmAwaitTarget
    \/ RxPoll \/ RxReadFifo \/ RxReadLqi \/ RxAwaitIdle \/ RxFlush \/ RxFlushErr
    \/ TxCheck \/ TxIocfgSync \/ TxFill \/ TxFlushTx \/ TxBurst
    \/ SetterStep
    \/ LlBurst

Spec == Init /\ [][Next]_vars

(***************************************************************************)
(* set_radio_mode alone, against a free chip, with the driver running      *)
(***************************************************************************)
\* One call set_radio_mode(m) on a new driver.
InitMode ==
    /\ marcstate \in MarcBytes
    /\ gdo2 = "low"
    /\ iocfg0 = 63
    /\ cs \in {"low", "high"}
    /\ fn = "set_radio_mode" /\ pc = "srm_sidle"
    /\ radio_mode \in RadioModes /\ srmRet = "ret"
    /\ len = 0 /\ payload = <<>> /\ tx_buffer = <<>>
    /\ last = 0 /\ readings = <<>> /\ length = 0 /\ lqi = 0
    /\ pendingErr = "none" /\ lastMarc = -1 /\ script = <<>>
    /\ result = "none" /\ retval = 0 /\ bus = <<>> /\ burstWire = <<>>
    /\ lineReads = 0 /\ sawHigh = FALSE /\ sawLow = FALSE
    /\ cs0 = cs /\ iocfg0_0 = iocfg0
    /\ bufLen = 0 /\ addr = 0 /\ fifoRx = <<>> /\ lineErr = FALSE
    /\ mr_f = "none" /\ mr_r = -1 /\ otherWrote = FALSE

NextMode ==
    \/ ChipStep
    \/ SrmStrobeIdle \/ SrmAwaitIdle \/ SrmStrobeTarget \/ SrmAwaitTarget

\* The driver is a running program: a step of it whose bus transaction succeeds
\* is taken if it stays possible.  Nothing obliges a transaction to fail.
DriverProgress == set_radio_mode /\ result' \notin {"Spi", "Gpio"}

SpecMode == InitMode /\ [][NextMode]_vars /\ WF_vars(DriverProgress)

(***************************************************************************)
(* Reading the record of a call                                            *)
(***************************************************************************)
Returned == pc = "idle" /\ fn # "none"
Ended == Returned \/ pc = "abort"
NoBusFailure == \A i \in DOMAIN bus : bus[i].out = "ok"
IsStrobe(e, com) == e.op = "strobe" /\ e.arg = com
IsRead(e, reg) == e.op = "read" /\ e.arg = reg
\* The transaction put its bytes on the bus.
Sent(e) == e.out \in {"ok", "gpio_high"}
Strobes(com) == {i \in DOMAIN bus : IsStrobe(bus[i], com)}
FifoReads == {i \in DOMAIN bus : bus[i].op = "read_fifo"}
LqiReads == {i \in DOMAIN bus : IsRead(bus[i], "LQI")}
OverflowSeen == \E i \in DOMAIN readings : rxfifo_overflow(readings[i]) = 1
\* The last two RXBYTES polls reported the same non-zero count, no overflow.
StablePolls ==
    /\ Len(readings) >= 2
    /\ ~OverflowSeen
    /\ num_rxbytes(readings[Len(readings)]) > 0
    /\ num_rxbytes(readings[Len(readings)]) = num_rxbytes(readings[Len(readings) - 1])

(***************************************************************************)
(* Claims about receive                                                    *)
(***************************************************************************)
\* C1: a receive call that returned after RXBYTES polls with no overflow and a
\* stable non-zero count, in which no bus primitive failed and the LQI byte has
\* its top bit set, made exactly one FIFO burst read, issued SFRX after that
\* read, and returned Ok with the length byte of the burst read.
C1_StableReceive ==
    (/\ fn = "receive" /\ Returned
     /\ StablePolls /\ NoBusFailure /\ lqi >= 128)
    => /\ Cardinality(FifoReads) = 1
       /\ \E i \in FifoReads : \E j \in Strobes("SFRX") : i < j /\ bus[j].out = "ok"
       /\ result = "Ok"
       /\ retval = length

\* C1's case: the polls 0, 4, 4, then Ok(4).
C1_Witness ==
    /\ fn = "receive" /\ Returned /\ NoBusFailure
    /\ readings = <<0, 4, 4>>
    /\ lqi = 133 /\ length = 4
    /\ result = "Ok" /\ retval = 4

\* C2 as stated: once a poll has reported overflow, the call returns RxOverflow,
\* having issued SFRX, with no FIFO burst read and no LQI read.
C2_AsStated ==
    (fn = "receive" /\ Returned /\ OverflowSeen)
    => /\ result = "RxOverflow"
       /\ \E j \in Strobes("SFRX") : Sent(bus[j])
       /\ FifoReads = {} /\ LqiReads = {}

\* C2 amended: once a poll has reported overflow the call makes no FIFO burst
\* read and no LQI read; its next and last bus transaction is the SFRX strobe;
\* it returns RxOverflow when that strobe succeeds and the strobe's own failure
\* (Spi or Gpio) when it does not.
C2_Overflow ==
    (fn = "receive" /\ OverflowSeen)
    => /\ FifoReads = {} /\ LqiReads = {}
       /\ pc \in {"rx_flush_err", "idle"}
       /\ Strobes("SFRX") = IF Returned THEN {Len(bus)} ELSE {}
       /\ Returned =>
            result = IF bus[Len(bus)].out = "ok" THEN "RxOverflow"
                     ELSE ErrOf(bus[Len(bus)].out)

\* C2's case: overflow on the very first poll, RxOverflow returned.
C2_Witness ==
    /\ fn = "receive" /\ Returned
    /\ readings = <<132>>
    /\ result = "RxOverflow"
    /\ IsStrobe(bus[Len(bus)], "SFRX")

\* The call made its FIFO burst read and its LQI read, both without failure.
LqiClassified ==
    /\ \E i \in FifoReads : bus[i].out = "ok"
    /\ \E i \in LqiReads : bus[i].out = "ok"
\* Every RxOverflow or CrcMismatch return comes after a successful SFRX strobe.
FlushBeforeError ==
    (fn = "receive" /\ Returned /\ result \in {"RxOverflow", "CrcMismatch"})
    => \E j \in Strobes("SFRX") : bus[j].out = "ok"

\* C3 as stated: after the burst read, for every LQI byte, the call returns
\* CrcMismatch exactly when the top bit is 0 and Ok(length) exactly when it is 1;
\* and RxOverflow / CrcMismatch come after an SFRX strobe.
C3_AsStated ==
    /\ (fn = "receive" /\ Returned /\ LqiClassified)
       => /\ (result = "CrcMismatch") <=> (lqi \div 128 = 0)
          /\ (result = "Ok" /\ retval = length) <=> (lqi \div 128 = 1)
    /\ FlushBeforeError

\* C3 amended: the same, for the calls in which no bus primitive fails after the
\* LQI read; a call in which one fails returns that failure instead.
C3_Classify ==
    /\ (fn = "receive" /\ Returned /\ LqiClassified /\ NoBusFailure)
       => /\ (result = "CrcMismatch") <=> (lqi \div 128 = 0)
          /\ (result = "Ok" /\ retval = length) <=> (lqi \div 128 = 1)
    /\ (fn = "receive" /\ Returned /\ LqiClassified /\ ~NoBusFailure)
       => result = ErrOf(bus[Len(bus)].out)
    /\ (fn = "receive" /\ Returned /\ result \in {"CrcMismatch", "Ok"})
       => LqiClassified /\ NoBusFailure
    /\ FlushBeforeError

\* C3's case: an LQI byte with the top bit clear, CrcMismatch after the flush.
C3_Witness ==
    /\ fn = "receive" /\ Returned /\ LqiClassified
    /\ lqi = 127
    /\ result = "CrcMismatch"
    /\ IsStrobe(bus[Len(bus)], "SFRX") /\ bus[Len(bus)].out = "ok"

(***************************************************************************)
(* Claims about transmit                                                   *)
(***************************************************************************)
\* C4: a transmit call whose len is 0 or at least 62 makes no bus transaction,
\* leaves chip-select and the chip's registers as they were, never reads the
\* status line, and returns Ok(()).
C4_Rejected ==
    (fn = "transmit" /\ (len = 0 \/ len >= 62))
    => /\ bus = <<>> /\ burstWire = <<>>
       /\ cs = cs0 /\ iocfg0 = iocfg0_0
       /\ lineReads = 0
       /\ pc \in {"tx_check", "idle"}
       /\ Returned => result = "Ok"

\* C4's case: len = 62 returned.
C4_Witness ==
    /\ fn = "transmit" /\ len = 62 /\ Returned
    /\ result = "Ok" /\ bus = <<>>

\* The claims' valid length: 0 < len < 62.
ClaimValidLen == len > 0 /\ len < 62
BurstWrites == {i \in DOMAIN bus : bus[i].op = "write_burst"}

\* C5: a transmit call with a valid length in which no bus primitive failed has,
\* when it ends, made in this order: the IDLE strobe confirmed by a MARCSTATE
\* read of IDLE, the SFTX strobe, the SRX strobe confirmed by a read of RX, the
\* FIFO burst write, the STX strobe, and a final IDLE strobe after both waits
\* on the status line; no SFTX follows the burst write and no STX precedes it.
C5_StrobeOrder ==
    (fn = "transmit" /\ ClaimValidLen /\ NoBusFailure /\ Ended)
    => /\ \E a, b, c, d, e, f \in DOMAIN bus :
            /\ a + 1 < b /\ b < c /\ c < d /\ d < e /\ e < f
            /\ IsStrobe(bus[a], "SIDLE")
            /\ IsRead(bus[a + 1], "MARCSTATE")
            /\ marc_state(bus[a + 1].val) = MachineStateValue("IDLE")
            /\ IsStrobe(bus[b], "SFTX")
            /\ IsStrobe(bus[c], "SRX")
            /\ IsRead(bus[c + 1], "MARCSTATE")
            /\ marc_state(bus[c + 1].val) = MachineStateValue("RX")
            /\ bus[d].op = "write_burst"
            /\ IsStrobe(bus[e], "STX")
            /\ IsStrobe(bus[f], "SIDLE")
       /\ sawHigh /\ sawLow
       /\ \A i \in Strobes("SFTX") : \A j \in BurstWrites : i < j
       /\ \A i \in Strobes("STX") : \A j \in BurstWrites : j < i

\* C6: a transmit call with a valid length and a payload of exactly len bytes, in
\* which no bus primitive failed, ends without a panic, and the bytes its burst
\* write put on the bus are the FIFO burst-write address, then len, then the
\* len payload bytes in order.
C6_BurstBytes ==
    (fn = "transmit" /\ ClaimValidLen /\ Len(payload) = len /\ NoBusFailure /\ Ended)
    => /\ result # "panic"
       /\ burstWire = <<FifoBurstWriteAddr, len>> \o payload

TargetCode ==
    MachineStateValue(IF radio_mode = "Idle" THEN "IDLE" ELSE TargetState(radio_mode))
IdleThenPoll(i) ==
    /\ IsStrobe(bus[i], "SIDLE") /\ bus[i].out = "ok"
    /\ IsRead(bus[i + 1], "MARCSTATE") /\ bus[i + 1].out = "ok"
    /\ marc_state(bus[i + 1].val) = MachineStateValue("IDLE")

\* C8: every SRX or STX strobe comes directly after an IDLE strobe and the
\* MARCSTATE polls that follow it, the last of which read IDLE.  A call
\* set_radio_mode(Receive / Transmit) that returns Ok made exactly: the IDLE
\* strobe, polls ending on IDLE, its target strobe, polls ending on the target
\* state.  A call set_radio_mode(Idle) issues no strobe but SIDLE, once.
C8_IdleFirst ==
    /\ \A i \in Strobes("SRX") \cup Strobes("STX") : i >= 3 /\ IdleThenPoll(i - 2)
    /\ fn = "set_radio_mode" =>
        /\ \A i \in DOMAIN bus : bus[i].op \in {"strobe", "read"}
        /\ \A i \in DOMAIN bus : bus[i].op = "strobe" =>
              bus[i].arg = IF i = 1 THEN "SIDLE" ELSE TargetStrobe(radio_mode)
        /\ radio_mode = "Idle" => \A i \in DOMAIN bus : bus[i].op = "strobe" => i = 1
        /\ (Returned /\ result = "Ok") =>
              /\ Len(bus) = IF radio_mode = "Idle" THEN 2 ELSE 4
              /\ IdleThenPoll(1)
              /\ radio_mode # "Idle" =>
                    /\ IsStrobe(bus[3], TargetStrobe(radio_mode)) /\ bus[3].out = "ok"
                    /\ IsRead(bus[4], "MARCSTATE")
                    /\ marc_state(bus[4].val) = TargetCode

\* C8's case: set_radio_mode(Receive) returned Ok.
C8_Witness ==
    /\ fn = "set_radio_mode" /\ radio_mode = "Receive"
    /\ Returned /\ result = "Ok"
    /\ IsStrobe(bus[3], "SRX")

\* A returned set_radio_mode call either read the target's code last and
\* returned Ok, or had a bus primitive fail and returned that failure.
C9_Returns ==
    (fn = "set_radio_mode" /\ Returned)
    => \/ /\ result = "Ok" /\ NoBusFailure
          /\ lastMarc # -1 /\ marc_state(lastMarc) = TargetCode
       \/ /\ result \in {"Spi", "Gpio"} /\ ~NoBusFailure
\* The loop the call is in, and the code that loop polls for.
Awaiting == pc \in {"srm_await_idle", "srm_await_target"}
AwaitedCode == IF pc = "srm_await_idle" THEN MachineStateValue("IDLE") ELSE TargetCode

\* C9 as stated: Ok only on a last MARCSTATE read of the target's code; no return
\* without that code or a bus failure; and if the chip from some point on always
\* reports the target's code, the call returns.
C9_AsStated ==
    /\ []C9_Returns
    /\ (<>[](marc_state(marcstate) = TargetCode)) => <>Returned

\* C9 amended: the same, except that the call returns if the chip from some
\* point on always reports the code the call is polling for at that moment:
\* IDLE in the pass through IDLE, the target's code after the target strobe.
C9_Termination ==
    /\ []C9_Returns
    /\ (<>[](Awaiting => marc_state(marcstate) = AwaitedCode)) => <>Returned

\* C9's case: set_radio_mode(Transmit) returned Ok on a read of TX, the chip
\* having reported something else since.
C9_Witness ==
    /\ fn = "set_radio_mode" /\ radio_mode = "Transmit"
    /\ Returned /\ result = "Ok"
    /\ lastMarc = 19 /\ marcstate # 19

(***************************************************************************)
(* Claims about failures of the bus                                        *)
(***************************************************************************)
HighLevel == Setters \cup {"set_radio_mode", "receive", "transmit"}

\* C10: in a high-level operation a failed bus transaction is the last
\* transaction of the call, and the call returns that failure: Spi for the SPI
\* transfer or write, Gpio for chip-select.
C10_AbortOnFailure ==
    fn \in HighLevel =>
        /\ \A i \in DOMAIN bus : bus[i].out # "ok" => i = Len(bus)
        /\ \A i \in DOMAIN bus :
              (bus[i].out # "ok" /\ Returned) => result = ErrOf(bus[i].out)

(***************************************************************************)
(* transmit after the burst write (lib.rs 296-314), entered in the state    *)
(* the lines before it leave when write_burst returns Ok                    *)
(***************************************************************************)
\* A successful transaction started with chip-select high.
OkEv(op, arg, val, prims) ==
    [op |-> op, arg |-> arg, val |-> val, out |-> "ok", pre |-> "high", did |-> prims]
\* The record of lines 276-290 without a failure, the chip confirming IDLE, IDLE, RX.
TxHeadRecord ==
    << OkEv("write", "IOCFG0", 9, WriteRegisterPrims),
       OkEv("strobe", "SIDLE", 0, WriteStrobePrims),
       OkEv("read", "MARCSTATE", MachineStateValue("IDLE"), ReadRegisterPrims),
       OkEv("strobe", "SFTX", 0, WriteStrobePrims),
       OkEv("strobe", "SIDLE", 0, WriteStrobePrims),
       OkEv("read", "MARCSTATE", MachineStateValue("IDLE"), ReadRegisterPrims),
       OkEv("strobe", "SRX", 0, WriteStrobePrims),
       OkEv("read", "MARCSTATE", MachineStateValue("RX"), ReadRegisterPrims),
       OkEv("write_burst", "FIFO", TxBufLen, Transaction(<<<<"write", TxBufLen>>>>)) >>

\* transmit at line 296, len valid and the payload filling tx_buffer[1..].
InitTxTail ==
    /\ marcstate \in MarcBytes
    /\ gdo2 = "low"
    /\ iocfg0 = 9
    /\ cs = "high"
    /\ fn = "transmit" /\ pc = "tx_iocfg_pkt"
    /\ radio_mode = "Receive" /\ srmRet = "tx_burst"
    /\ len \in {1, 61} /\ payload = Pay(TxBufLen - 1)
    /\ tx_buffer = <<len>> \o payload
    /\ last = 0 /\ readings = <<>> /\ length = 0 /\ lqi = 0
    /\ pendingErr = "none" /\ lastMarc = MachineStateValue("RX") /\ script = <<>>
    /\ result = "none" /\ retval = 0
    /\ bus = TxHeadRecord
    /\ burstWire = SubSeq(<<FifoBurstWriteAddr>> \o tx_buffer, 1, TxBufLen)
    /\ lineReads = 0 /\ sawHigh = FALSE /\ sawLow = FALSE
    /\ cs0 = "high" /\ iocfg0_0 = 63
    /\ bufLen = 0 /\ addr = 0 /\ fifoRx = <<>> /\ lineErr = FALSE
    /\ mr_f = "none" /\ mr_r = -1 /\ otherWrote = FALSE

NextTxTail ==
    \/ TxIocfgPkt \/ TxWaitSync \/ TxWaitDone
    \/ SrmStrobeIdle \/ SrmAwaitIdle \/ SrmStrobeTarget \/ SrmAwaitTarget
    \/ ChipStep
    \/ LineStep

SpecTxTail == InitTxTail /\ [][NextTxTail]_vars

C12_BurstTransaction ==
    (fn = "write_burst" /\ Ended /\ NoBusFailure)
    => /\ result = "Ok"
       /\ Len(bus) = 1
       /\ bus[1].did = Transaction(<<<<"write", Len(payload) + 1>>>>)
       /\ burstWire = <<FifoBurstWriteAddr>> \o payload

IsSpi(prim) == prim[1] \in {"transfer", "write"}
\* Chip-select level when primitive k of transaction e ran.
LevelAt(e, k) == LevelAfter(e.pre, SubSeq(e.did, 1, k - 1))

\* C13: every transaction in the record that returned Ok drove chip-select low
\* first and high last, with only SPI operations between the two, each of them
\* run while chip-select was low; and chip-select is high after a transaction
\* that returned Ok, up to the start of the next one.
C13_ChipSelectFraming ==
    /\ \A i \in DOMAIN bus : bus[i].out = "ok" =>
         LET d == bus[i].did IN
         /\ Len(d) >= 2
         /\ d[1][1] = "set_low" /\ d[Len(d)][1] = "set_high"
         /\ \A k \in 2..(Len(d) - 1) : IsSpi(d[k])
         /\ \A k \in 1..Len(d) : IsSpi(d[k]) => LevelAt(bus[i], k) = "low"
    /\ \A i \in DOMAIN bus : (i > 1 /\ bus[i - 1].out = "ok") => bus[i].pre = "high"
    /\ (Len(bus) > 0 /\ bus[Len(bus)].out = "ok") => cs = "high"

\* C13's case: a receive call of successful transactions only, the burst read of
\* an 8-byte buffer among them, on a driver whose chip-select started low.
C13_Witness ==
    /\ fn = "receive" /\ Returned /\ NoBusFailure /\ cs0 = "low"
    /\ Len(bus) = 5
    /\ \E i \in FifoReads : bus[i].did = ReadFifoPrims(8)
    /\ cs = "high"

(***************************************************************************)
(* More claims about receive                                                *)
(***************************************************************************)
\* C14: in a receive call whose burst read and LQI read succeeded, every
\* MARCSTATE poll and every SFRX strobe comes after an IDLE-enter strobe that
\* the call issued after its LQI read.
C14_ForcedIdle ==
    (fn = "receive" /\ LqiClassified)
    => \A j \in DOMAIN bus :
          (IsRead(bus[j], "MARCSTATE") \/ IsStrobe(bus[j], "SFRX"))
          => \E i \in Strobes("SIDLE") : i < j /\ \E q \in LqiReads : q < i

(***************************************************************************)
(* lowlevel modify_register(Config::IOCFG0, f), called directly, with       *)
(* another user of the bus able to write the register between the read and  *)
(* the write                                                                *)
(***************************************************************************)
\* Closures handed to modify_register: set bit 6, invert bit 6.
MrFs == {"set_bit6", "toggle_bit6"}
Bit6(x) == (x \div 64) % 2
Apply(f, x) ==
    CASE f = "set_bit6" -> IF Bit6(x) = 0 THEN x + 64 ELSE x
      [] f = "toggle_bit6" -> IF Bit6(x) = 0 THEN x + 64 ELSE x - 64
\* Contents of the register when the call starts, and bytes the other user writes.
RegBytes == {6, 9, 63}
OtherBytes == {0, 6, 9}

\* let r = self.read_register(reg)?;
MrRead ==
    /\ pc = "mr_read"
    /\ \E out \in Outcomes :
        /\ read_register("IOCFG0", iocfg0, out)
        /\ IF out = "ok"
           THEN mr_r' = iocfg0 /\ pc' = "mr_write" /\ UNCHANGED <<result, retval>>
           ELSE Return(ErrOf(out), 0) /\ UNCHANGED mr_r
    /\ UNCHANGED <<chipVars, argVars, otherWrote, srmVars, rxVars, txVars, lastMarc, script>>

\* A variant that applies f to the register's content at the time of the write.
MrWrite_Reread ==
    /\ pc = "mr_write"
    /\ \E out \in Outcomes :
        /\ write_register("IOCFG0", Apply(mr_f, iocfg0), out)
        /\ Return(IF out = "ok" THEN "Ok" ELSE ErrOf(out), 0)
    /\ UNCHANGED <<marcstate, gdo2, argVars, mrVars, srmVars, rxVars, txVars, lastMarc, script>>

\* self.write_register(reg, f(r))?; Ok(())
MrWrite ==
    /\ pc = "mr_write"
    /\ \E out \in Outcomes :
        /\ write_register("IOCFG0", Apply(mr_f, mr_r), out)
        /\ Return(IF out = "ok" THEN "Ok" ELSE ErrOf(out), 0)
    /\ UNCHANGED <<marcstate, gdo2, argVars, mrVars, srmVars, rxVars, txVars, lastMarc, script>>

\* Another user of the bus writes the register after the driver has read it.
OtherUserWrite ==
    /\ pc = "mr_write"
    /\ ~otherWrote
    /\ \E b \in OtherBytes \ {iocfg0} : iocfg0' = b
    /\ otherWrote' = TRUE
    /\ UNCHANGED <<marcstate, gdo2, cs, pc, argVars, mr_r, srmVars, rxVars, txVars,
                   lastMarc, script, result, retval, bus>>

InitModify ==
    /\ marcstate = MachineStateValue("IDLE")
    /\ gdo2 = "low"
    /\ iocfg0 \in RegBytes
    /\ cs \in {"low", "high"}
    /\ fn = "modify_register" /\ pc = "mr_read"
    /\ radio_mode = "Idle" /\ srmRet = "ret"
    /\ len = 0 /\ payload = <<>> /\ tx_buffer = <<>>
    /\ last = 0 /\ readings = <<>> /\ length = 0 /\ lqi = 0
    /\ pendingErr = "none" /\ lastMarc = -1 /\ script = <<>>
    /\ result = "none" /\ retval = 0 /\ bus = <<>> /\ burstWire = <<>>
    /\ lineReads = 0 /\ sawHigh = FALSE /\ sawLow = FALSE
    /\ cs0 = cs /\ iocfg0_0 = iocfg0
    /\ bufLen = 0 /\ addr = 0 /\ fifoRx = <<>> /\ lineErr = FALSE
    /\ mr_f \in MrFs /\ mr_r = -1 /\ otherWrote = FALSE

NextModify == MrRead \/ MrWrite \/ OtherUserWrite

SpecModify == InitModify /\ [][NextModify]_vars

\* C15: modify_register makes one read of the register and then, only if the
\* read succeeded, one write to the same register of f applied to the byte
\* read; a call that returns Ok leaves the register holding f of its content
\* before the call, also when another user wrote the register between the read
\* and the write: that write is overwritten.
C15_ReadModifyWrite ==
    /\ Len(bus) <= 2
    /\ Len(bus) >= 1 =>
         /\ IsRead(bus[1], "IOCFG0")
         /\ bus[1].out = "ok" => (bus[1].val = iocfg0_0 /\ mr_r = iocfg0_0)
         /\ bus[1].out # "ok" =>
              /\ Len(bus) = 1 /\ Returned /\ result = ErrOf(bus[1].out)
              /\ iocfg0 = iocfg0_0
    /\ Len(bus) = 2 =>
         /\ bus[1].out = "ok"
         /\ bus[2].op = "write" /\ bus[2].arg = "IOCFG0"
         /\ bus[2].val = Apply(mr_f, bus[1].val)
    /\ (Returned /\ result = "Ok") => iocfg0 = Apply(mr_f, iocfg0_0)

\* C15's case: the register held 63, the driver read it, another user wrote a
\* different byte, and the driver's write of f(63) = 127 replaced that byte.
C15_Witness ==
    /\ fn = "modify_register" /\ Returned /\ result = "Ok"
    /\ otherWrote
    /\ mr_f = "toggle_bit6" /\ iocfg0_0 = 63 /\ iocfg0 = 127
    /\ cs0 = "high"

(***************************************************************************)
(* Claims about read_fifo and rx_bytes_available                            *)
(***************************************************************************)
\* C16: a FIFO burst read that returned Ok made, inside one chip-select low
\* period, one transfer of 3 bytes (the address and two more) and then one
\* transfer of buf.len() bytes, whatever count RXBYTES reported and whatever
\* the length byte is; len is the second byte clocked back and addr the third.
C16_ReadFifo ==
    \A i \in FifoReads : bus[i].out = "ok" =>
        /\ bus[i].did = << <<"set_low", 0>>, <<"transfer", 3>>,
                           <<"transfer", bufLen>>, <<"set_high", 0>> >>
        /\ Len(fifoRx) = 3
        /\ length = fifoRx[2]
        /\ addr = fifoRx[3]

\* C16's case: RXBYTES reported 4 bytes, the length byte is 200, the address
\* byte 17, and 8 payload bytes were transferred into the caller's 8-byte buffer.
C16_Witness ==
    /\ fn = "receive" /\ bufLen = 8
    /\ \E i \in FifoReads : bus[i].out = "ok" /\ bus[i].did[3] = <<"transfer", 8>>
    /\ last = 4
    /\ fifoRx = <<15, 200, 17>> /\ length = 200 /\ addr = 17

\* rx_bytes_available has returned Ok(last) to receive.
PollReturnedOk == fn = "receive" /\ pc # "rx_poll" /\ pendingErr = "none"

\* C17: rx_bytes_available returns Ok(n) only after at least two readings, with
\* n > 0 the count of both the last and the last but one reading, and no
\* reading with the overflow flag; while the call has read a single count, or
\* its last two counts differ or are zero, and nothing failed, it is still
\* polling.
C17_Debounce ==
    LET n == Len(readings) IN
    /\ PollReturnedOk =>
         /\ n >= 2
         /\ last > 0
         /\ num_rxbytes(readings[n]) = last
         /\ num_rxbytes(readings[n - 1]) = last
         /\ \A i \in 1..n : rxfifo_overflow(readings[i]) = 0
    /\ (/\ fn = "receive" /\ pendingErr = "none" /\ n >= 1
        /\ \/ n = 1
           \/ num_rxbytes(readings[n]) = 0
           \/ num_rxbytes(readings[n]) # num_rxbytes(readings[n - 1]))
       => pc = "rx_poll"

\* C17's case: a first reading of 4 did not end the poll, a second of 5 did not
\* either, a third of 5 did, with Ok(5).
C17_Witness ==
    /\ PollReturnedOk
    /\ readings = <<4, 5, 5>>
    /\ last = 5

(***************************************************************************)
(* IDLE between operations                                                  *)
(***************************************************************************)
\* The successful MARCSTATE reads in the record.
MarcReads == {i \in DOMAIN bus : IsRead(bus[i], "MARCSTATE") /\ bus[i].out = "ok"}
\* The call is one of those that are to leave the chip in IDLE, and has returned so.
LandingReturn ==
    /\ Returned
    /\ \/ fn = "receive" /\ result \in {"Ok", "CrcMismatch"}
       \/ fn = "transmit" /\ ClaimValidLen /\ result = "Ok"
       \/ fn = "set_radio_mode" /\ radio_mode = "Idle" /\ result = "Ok"

\* C18: when receive has returned Ok or CrcMismatch, transmit with a valid
\* length has returned Ok, or set_radio_mode(Idle) has returned Ok, the call
\* read MARCSTATE, its last reading had the IDLE code in its state field, and
\* the call issued no SRX and no STX strobe after that reading.
C18_IdleLanding ==
    LandingReturn =>
        /\ MarcReads # {}
        /\ marc_state(lastMarc) = 1
        /\ \A k \in MarcReads :
             (\A i \in MarcReads : i <= k) =>
                /\ marc_state(bus[k].val) = 1
                /\ \A j \in DOMAIN bus :
                     j > k => ~(IsStrobe(bus[j], "SRX") \/ IsStrobe(bus[j], "STX"))

\* C18's case: receive returned CrcMismatch; its last MARCSTATE reading was 33,
\* the IDLE code under a reserved upper bit, and only SFRX followed.
C18_Witness ==
    /\ fn = "receive" /\ Returned /\ result = "CrcMismatch"
    /\ lastMarc = 33
    /\ IsStrobe(bus[Len(bus)], "SFRX")
    /\ IsRead(bus[Len(bus) - 1], "MARCSTATE")

(***************************************************************************)
(* Chip-select after a failed transaction                                   *)
(***************************************************************************)
\* C19: a transaction whose SPI transfer or write failed did not drive
\* chip-select high and left it low; and chip-select goes from low to high
\* only in a step that adds a transaction that returned Ok to the record.
C19_LeftLow ==
    /\ [](\A i \in DOMAIN bus : bus[i].out \in {"spi", "spi2"} =>
            /\ \A k \in DOMAIN bus[i].did : bus[i].did[k][1] # "set_high"
            /\ LevelAfter(bus[i].pre, bus[i].did) = "low"
            /\ i = Len(bus) => cs = "low")
    /\ [][(cs = "low" /\ cs' = "high")
          => (bus' # bus /\ Len(bus') > 0 /\ bus'[Len(bus')].out = "ok")]_vars

\* C19's case: the first transaction of a call failed in its SPI transfer and
\* left chip-select low; the next one started with it low, returned Ok and
\* drove it high.
C19_Witness ==
    /\ Len(bus) = 2
    /\ bus[1].out = "spi" /\ cs0 = "high"
    /\ bus[2].pre = "low" /\ bus[2].out = "ok"
    /\ cs = "high"

(***************************************************************************)
(* transmit comes back                                                      *)
(***************************************************************************)
\* C20: a transmit call with a valid length in which no bus primitive failed
\* ends in no other way than by returning Ok.
C20_TransmitReturnsOk ==
    (fn = "transmit" /\ ClaimValidLen /\ NoBusFailure /\ Ended) => result = "Ok"

====
